---- MODULE Spec2Model ----
(***************************************************************************)
(* Model of the type marshalling layer of cairo-vm-base: the CairoType     *)
(* implementations (Felt, Uint256, Uint256Bits32, UInt384, KeccakBytes)    *)
(* reading from and writing to the memory of a cairo_vm VirtualMachine,    *)
(* and the string codec (hex_bytes_padded, from_any_str).                  *)
(*                                                                         *)
(* Numbers.  TLC's integers are 32 bits wide, the program's are 256 and    *)
(* 384 bits wide and wider, so a BigUint is modelled the way the program   *)
(* itself moves it around: as its big-endian byte string (to_bytes_be /    *)
(* from_bytes_be), normalised (no leading zero byte, zero is the empty     *)
(* string).  Every shift and mask of the source is a multiple of 8 bits,   *)
(* so shifts and masks act on whole bytes.  A Felt252 is the normalised    *)
(* byte string of a value below the field prime.                           *)
(***************************************************************************)
EXTENDS Integers, Sequences, FiniteSets, TLC

VARIABLES
    mem,      \* VM memory: a function from the set cells <<segment, offset>> to their value
    nsegs,    \* number of memory segments the VM has allocated
    last,     \* the last call made on the VM, with its arguments and its result
    steps,    \* number of calls made so far
    parsed,   \* the last from_any_str call, with its text and its result
    wire      \* the last serialize or deserialize call, with its value and its result

vars == <<mem, nsegs, last, steps, parsed, wire>>

(***************************************************************************)
(* Bounds of the model.                                                    *)
(***************************************************************************)
MaxOffset == 1      \* calls are made at the addresses 0:0 .. 0:MaxOffset
MaxSteps == 2       \* calls made on one VM
MaxHead == 1        \* length of the freely chosen head of a parsed text
MaxShort == 3       \* length of the short texts, all of which are parsed
MaxFeltText == 81   \* length of the texts given to Felt::from_any_str

(***************************************************************************)
(* Byte strings and big integers (num_bigint::BigUint).                    *)
(***************************************************************************)
Zeros(n) == [i \in 1..n |-> 0]

Rep(x, n) == [i \in 1..n |-> x]

Max(a, b) == IF a >= b THEN a ELSE b

DivCeil(n, d) == (n + d - 1) \div d

\* BigUint::from_bytes_be: the value of a big-endian byte string
from_bytes_be(bs) ==
    LET nz == {i \in 1..Len(bs) : bs[i] # 0}
    IN  IF nz = {} THEN <<>>
        ELSE SubSeq(bs, CHOOSE i \in nz : \A j \in nz : i <= j, Len(bs))

\* BigUint::to_bytes_be: the big-endian bytes of a value; zero is the one byte 0
to_bytes_be(n) == IF n = <<>> THEN <<0>> ELSE n

\* left-pad with zero bytes to w bytes (w >= Len(bs))
PadLeft(bs, w) == Zeros(w - Len(bs)) \o bs

\* n >> bits, bits a multiple of 8
Shr(n, bits) ==
    IF Len(n) <= bits \div 8 THEN <<>> ELSE SubSeq(n, 1, Len(n) - bits \div 8)

\* n << bits, bits a multiple of 8
Shl(n, bits) == IF n = <<>> THEN <<>> ELSE n \o Zeros(bits \div 8)

\* n & ((1 << bits) - 1), bits a multiple of 8
AndMask(n, bits) ==
    IF Len(n) <= bits \div 8 THEN n
    ELSE from_bytes_be(SubSeq(n, Len(n) - bits \div 8 + 1, Len(n)))

RECURSIVE ByteAnd(_, _, _)
ByteAnd(x, y, k) ==
    IF k = 0 THEN 0
    ELSE (IF x % 2 = 1 /\ y % 2 = 1 THEN 1 ELSE 0) + 2 * ByteAnd(x \div 2, y \div 2, k - 1)

ByteOr(x, y) ==
    IF x = 0 THEN y ELSE IF y = 0 THEN x ELSE x + y - ByteAnd(x, y, 8)

\* a | b
BitOr(a, b) ==
    LET w == Max(Len(a), Len(b))
        pa == PadLeft(a, w)
        pb == PadLeft(b, w)
    IN  from_bytes_be([i \in 1..w |-> ByteOr(pa[i], pb[i])])

\* TLC evaluates operator arguments and LET definitions on demand and nests
\* one evaluation in the other; the loops below are therefore split in halves
\* and the first half's result is evaluated (x = x) before the second begins,
\* which keeps the nesting logarithmic in the length of the loop.
Force(x, e) == IF x = x THEN e ELSE e

\* a < b on normalised values: the shorter is the smaller, and of two of the
\* same length the first byte that differs decides
Less(a, b) ==
    IF Len(a) # Len(b) THEN Len(a) < Len(b)
    ELSE LET d == {i \in 1..Len(a) : a[i] # b[i]}
         IN  d # {} /\ LET i == CHOOSE i \in d : \A j \in d : i <= j IN a[i] < b[i]

\* a - b for a >= b: byte i borrows iff the bytes below it are less in a than in b
Sub(a, b) ==
    LET w  == Len(a)
        pb == PadLeft(b, w)
        borrow(i) ==
            LET d == {j \in (i + 1)..w : a[j] # pb[j]}
            IN  IF d # {} /\ LET j == CHOOSE j \in d : \A k \in d : j <= k IN a[j] < pb[j]
                THEN 1 ELSE 0
    IN  from_bytes_be([i \in 1..w |-> (a[i] - pb[i] - borrow(i) + 256) % 256])

\* n * m + c on the bytes lo .. hi of n, most significant first: the carry
\* out of them, followed by the bytes of the result
RECURSIVE MulAddRange(_, _, _, _, _)
MulAddRange(n, m, c, lo, hi) ==
    IF lo > hi THEN <<c>>
    ELSE IF lo = hi THEN LET t == n[lo] * m + c IN <<t \div 256, t % 256>>
    ELSE LET mid   == (lo + hi) \div 2
             right == MulAddRange(n, m, c, mid + 1, hi)
         IN  Force(right, MulAddRange(n, m, right[1], lo, mid) \o Tail(right))

\* n * m + c for small m and c (m <= 10^6, c < 10^6: every product fits
\* TLC's integers and the carry fits three bytes)
MulAdd(n, m, c) ==
    LET r == MulAddRange(n, m, c, 1, Len(n))
    IN  from_bytes_be(<<r[1] \div 65536, (r[1] \div 256) % 256, r[1] % 256>> \o Tail(r))

(***************************************************************************)
(* Felt252 (starknet_types_core): integers modulo the field prime          *)
(*   P = 2^251 + 17 * 2^192 + 1.                                           *)
(***************************************************************************)
PRIME ==
    <<8>> \o Zeros(6) \o <<17>> \o Zeros(23) \o <<1>>

\* P * 2^j for j = 0 .. 7
PrimeShifted == [j \in 0..7 |-> MulAdd(PRIME, 2 ^ j, 0)]

\* n mod P for n < 256 * P: subtract P * 2^j for j = 7 .. 0 where it fits
RECURSIVE ReduceStep(_, _)
ReduceStep(n, j) ==
    LET pj == PrimeShifted[j]
        r  == IF Less(n, pj) THEN n ELSE Sub(n, pj)
    IN  IF j = 0 THEN r ELSE ReduceStep(r, j - 1)

\* Horner's rule over the bytes lo .. hi of bs, from acc < P: (acc * 256 + byte) mod P
RECURSIVE ReduceBytes(_, _, _, _)
ReduceBytes(acc, bs, lo, hi) ==
    IF lo > hi THEN acc
    ELSE IF lo = hi THEN ReduceStep(MulAdd(acc, 256, bs[lo]), 7)
    ELSE LET mid  == (lo + hi) \div 2
             left == ReduceBytes(acc, bs, lo, mid)
         IN  Force(left, ReduceBytes(left, bs, mid + 1, hi))

\* Felt252::from_bytes_be_slice: the value of the bytes, reduced modulo P
Felt252_from_bytes_be_slice(bs) ==
    LET n == from_bytes_be(bs)
    IN  IF Less(n, PRIME) THEN n ELSE ReduceBytes(<<>>, n, 1, Len(n))

\* Felt252::to_bytes_be: always 32 bytes
Felt252_to_bytes_be(f) == PadLeft(f, 32)

\* Felt252::from(u64)
Felt252_from_u64(bs) == from_bytes_be(bs)

(***************************************************************************)
(* The VM's memory (cairo_vm::vm::vm_core::VirtualMachine), as the types   *)
(* use it: add_memory_segment, insert_value, get_integer.                  *)
(***************************************************************************)
IntCell(f) == [k |-> "int", v |-> f]

PtrCell(a) == [k |-> "ptr", v |-> a]

\* Relocatable + usize
AddrAdd(a, i) == <<a[1], a[2] + i>>

\* vm.insert_value(a, c) on memory m with n segments: cells are write-once;
\* writing the value a cell already holds succeeds, any other value fails,
\* and so does a write into a segment that was not allocated
InsertOk(m, n, a, c) ==
    /\ a[1] < n
    /\ a \in DOMAIN m => m[a] = c

Insert(m, a, c) == IF a \in DOMAIN m THEN m ELSE (a :> c) @@ m

\* vm.get_integer(a): the cell must be set and hold a field element
GetIntegerOk(m, a) == a \in DOMAIN m /\ m[a].k = "int"

\* a sequence of insert_value calls chained with `?`: the first failure ends
\* the call, and what was written before it stays written.
\* Returns the memory and the number of writes that succeeded.
RECURSIVE InsertAll(_, _, _, _)
InsertAll(m, n, writes, i) ==
    IF i > Len(writes) THEN [mem |-> m, done |-> Len(writes)]
    ELSE IF InsertOk(m, n, writes[i][1], writes[i][2])
         THEN InsertAll(Insert(m, writes[i][1], writes[i][2]), n, writes, i + 1)
         ELSE [mem |-> m, done |-> i - 1]

(***************************************************************************)
(* Results.                                                                *)
(***************************************************************************)
Ok(v) == [st |-> "ok", val |-> v]

Err == [st |-> "err", val |-> <<>>]

Panic == [st |-> "panic", val |-> <<>>]

(***************************************************************************)
(* Uint256Bits32: 8 limbs of 32 bits.                                      *)
(***************************************************************************)
Uint256Bits32_LIMB_SIZE == 32

Uint256Bits32_n_fields == 8

\* to_limbs with the shift i * 32: the least significant limb first
Uint256Bits32_to_limbs_LsbFirst(v) ==
    [i \in 0..7 |->
        LET shift == i * Uint256Bits32_LIMB_SIZE
            limb  == AndMask(Shr(v, shift), Uint256Bits32_LIMB_SIZE)
        IN  Felt252_from_bytes_be_slice(to_bytes_be(limb))]

\* Uint256Bits32::to_limbs: limb i is (value >> (7 - i) * 32) & mask
Uint256Bits32_to_limbs(v) ==
    [i \in 0..7 |->
        LET shift == (7 - i) * Uint256Bits32_LIMB_SIZE
            limb  == AndMask(Shr(v, shift), Uint256Bits32_LIMB_SIZE)
        IN  Felt252_from_bytes_be_slice(to_bytes_be(limb))]

\* Uint256Bits32::from_memory: for i in (0..8).rev(): bigint = (bigint << 32) | cell[i]
RECURSIVE Uint256Bits32_fold(_, _, _, _)
Uint256Bits32_fold(m, a, i, bigint) ==
    IF i < 0 THEN Ok(bigint)
    ELSE IF ~GetIntegerOk(m, AddrAdd(a, i)) THEN Err
    ELSE LET value == from_bytes_be(Felt252_to_bytes_be(m[AddrAdd(a, i)].v))
         IN  Uint256Bits32_fold(m, a, i - 1, BitOr(Shl(bigint, 32), value))

Uint256Bits32_from_memory(m, a) == Uint256Bits32_fold(m, a, 7, <<>>)

\* Uint256Bits32::to_memory: the writes it makes, in order
Uint256Bits32_writes(v, a) ==
    LET limbs == Uint256Bits32_to_limbs(v)
    IN  [i \in 1..8 |-> <<AddrAdd(a, i - 1), IntCell(limbs[i - 1])>>]

(***************************************************************************)
(* Felt: one cell.                                                         *)
(***************************************************************************)
Felt_n_fields == 1

\* Felt::from_memory
Felt_from_memory(m, a) ==
    IF ~GetIntegerOk(m, AddrAdd(a, 0)) THEN Err ELSE Ok(m[AddrAdd(a, 0)].v)

\* Felt::to_memory: the writes it makes, in order
Felt_writes(v, a) == << <<AddrAdd(a, 0), IntCell(v)>> >>

(***************************************************************************)
(* Uint256: 2 limbs of 128 bits.                                           *)
(***************************************************************************)
Uint256_LIMB_SIZE == 128

Uint256_n_fields == 2

\* to_limbs with the upper limb first
Uint256_to_limbs_Swapped(v) ==
    LET lower_limb == AndMask(v, Uint256_LIMB_SIZE)
        upper_limb == Shr(v, Uint256_LIMB_SIZE)
    IN  << Felt252_from_bytes_be_slice(to_bytes_be(upper_limb)),
           Felt252_from_bytes_be_slice(to_bytes_be(lower_limb)) >>

\* Uint256::to_limbs: [value & mask, value >> 128]
Uint256_to_limbs(v) ==
    LET lower_limb == AndMask(v, Uint256_LIMB_SIZE)
        upper_limb == Shr(v, Uint256_LIMB_SIZE)
    IN  << Felt252_from_bytes_be_slice(to_bytes_be(lower_limb)),
           Felt252_from_bytes_be_slice(to_bytes_be(upper_limb)) >>

\* from_memory that reads a cell that holds no integer as 0
Uint256_from_memory_ZeroDefault(m, a) ==
    LET d(i) == IF GetIntegerOk(m, AddrAdd(a, i))
                THEN from_bytes_be(Felt252_to_bytes_be(m[AddrAdd(a, i)].v)) ELSE <<>>
    IN  Ok(BitOr(Shl(d(1), 128), d(0)))

\* Uint256::from_memory: d1 << 128 | d0
Uint256_from_memory(m, a) ==
    IF ~GetIntegerOk(m, AddrAdd(a, 0)) THEN Err
    ELSE IF ~GetIntegerOk(m, AddrAdd(a, 1)) THEN Err
    ELSE LET d0 == from_bytes_be(Felt252_to_bytes_be(m[AddrAdd(a, 0)].v))
             d1 == from_bytes_be(Felt252_to_bytes_be(m[AddrAdd(a, 1)].v))
         IN  Ok(BitOr(Shl(d1, 128), d0))

\* Uint256::to_memory: the writes it makes, in order
Uint256_writes(v, a) ==
    LET limbs == Uint256_to_limbs(v)
    IN  << <<AddrAdd(a, 0), IntCell(limbs[1])>>,
           <<AddrAdd(a, 1), IntCell(limbs[2])>> >>

(***************************************************************************)
(* UInt384: 4 limbs of 96 bits.                                            *)
(***************************************************************************)
UInt384_n_fields == 4

\* `let start = 48 - bytes.len()` and `padded[start..]`: a value of more than
\* 48 bytes aborts the call (the subtraction overflows, or, where overflow
\* wraps, the slice start is out of range)
UInt384_to_limbs_panics(v) == Len(to_bytes_be(v)) > 48

\* to_limbs with the groups in the order 0..12, 12..24, 24..36, 36..48
UInt384_to_limbs_Reversed(v) ==
    LET padded == PadLeft(to_bytes_be(v), 48)
    IN  << SubSeq(padded, 1, 12), SubSeq(padded, 13, 24),
           SubSeq(padded, 25, 36), SubSeq(padded, 37, 48) >>

\* UInt384::to_limbs: the 12-byte groups 36..48, 24..36, 12..24, 0..12 of
\* the value's 48 big-endian bytes
UInt384_to_limbs(v) ==
    LET padded == PadLeft(to_bytes_be(v), 48)
    IN  << SubSeq(padded, 37, 48), SubSeq(padded, 25, 36),
           SubSeq(padded, 13, 24), SubSeq(padded, 1, 12) >>

\* from_memory with d2 shifted by 184 bits
UInt384_from_memory_Shift184(m, a) ==
    IF \E i \in 0..3 : ~GetIntegerOk(m, AddrAdd(a, i)) THEN Err
    ELSE LET d(i) == from_bytes_be(Felt252_to_bytes_be(m[AddrAdd(a, i)].v))
         IN  Ok(BitOr(BitOr(BitOr(Shl(d(3), 288), Shl(d(2), 184)), Shl(d(1), 96)), d(0)))

\* UInt384::from_memory: d3 << 288 | d2 << 192 | d1 << 96 | d0
UInt384_from_memory(m, a) ==
    IF \E i \in 0..3 : ~GetIntegerOk(m, AddrAdd(a, i)) THEN Err
    ELSE LET d(i) == from_bytes_be(Felt252_to_bytes_be(m[AddrAdd(a, i)].v))
         IN  Ok(BitOr(BitOr(BitOr(Shl(d(3), 288), Shl(d(2), 192)), Shl(d(1), 96)), d(0)))

\* UInt384::to_memory: the writes it makes, in order
UInt384_writes(v, a) ==
    LET limbs == UInt384_to_limbs(v)
    IN  [i \in 1..4 |->
            <<AddrAdd(a, i - 1), IntCell(Felt252_from_bytes_be_slice(limbs[i]))>>]

(***************************************************************************)
(* KeccakBytes: a byte buffer packed into little-endian 64-bit words in a  *)
(* segment of its own, with a pointer to it at the address.                *)
(***************************************************************************)
KeccakBytes_n_fields == 1

\* u64::from_be_bytes(buf): chunk byte 0 as the most significant byte
KeccakBytes_word_BigEndian(bytes, j) ==
    LET buf == [k \in 0..7 |-> IF 8 * j + k + 1 <= Len(bytes) THEN bytes[8 * j + k + 1] ELSE 0]
    IN  from_bytes_be([k \in 1..8 |-> buf[k - 1]])

\* u64::from_le_bytes(buf) of the j-th chunk (j from 0), the chunk's bytes
\* copied to the front of a zeroed 8-byte buf
KeccakBytes_word(bytes, j) ==
    LET buf == [k \in 0..7 |-> IF 8 * j + k + 1 <= Len(bytes) THEN bytes[8 * j + k + 1] ELSE 0]
    IN  from_bytes_be([k \in 1..8 |-> buf[8 - k]])

\* KeccakBytes::to_limbs: one word per chunk of 8 bytes
KeccakBytes_to_limbs(bytes) ==
    [j \in 1..DivCeil(Len(bytes), 8) |-> Felt252_from_u64(KeccakBytes_word(bytes, j - 1))]

\* to_memory that stores the pointer before it writes the words
KeccakBytes_writes_PointerFirst(bytes, a, seg) ==
    LET limbs == KeccakBytes_to_limbs(bytes)
    IN  << <<a, PtrCell(<<seg, 0>>)>> >>
            \o [i \in 1..Len(limbs) |-> << <<seg, i - 1>>, IntCell(limbs[i]) >>]

\* to_memory with the pointer written one cell after the address
KeccakBytes_writes_PointerAfter(bytes, a, seg) ==
    LET limbs == KeccakBytes_to_limbs(bytes)
    IN  [i \in 1..Len(limbs) |-> << <<seg, i - 1>>, IntCell(limbs[i]) >>]
            \o << <<AddrAdd(a, 1), PtrCell(<<seg, 0>>)>> >>

\* KeccakBytes::to_memory: the writes it makes, in order, the segment
\* add_memory_segment returned being `seg`
KeccakBytes_writes(bytes, a, seg) ==
    LET limbs == KeccakBytes_to_limbs(bytes)
    IN  [i \in 1..Len(limbs) |-> << <<seg, i - 1>>, IntCell(limbs[i]) >>]
            \o << <<a, PtrCell(<<seg, 0>>)>> >>

(***************************************************************************)
(* The string codec.  A text is a sequence of one-character strings.       *)
(***************************************************************************)
DecDigits == <<"0", "1", "2", "3", "4", "5", "6", "7", "8", "9">>

LowerHex == DecDigits \o <<"a", "b", "c", "d", "e", "f">>

UpperHex == DecDigits \o <<"A", "B", "C", "D", "E", "F">>

\* the value of each hex digit, of either case
HexDigitVal ==
    [c \in {LowerHex[i] : i \in 1..16} \cup {UpperHex[i] : i \in 1..16} |->
        (CHOOSE i \in 1..16 : LowerHex[i] = c \/ UpperHex[i] = c) - 1]

IsHexDigit(c) == c \in DOMAIN HexDigitVal

HexVal(c) == HexDigitVal[c]

IsDecDigit(c) == IsHexDigit(c) /\ HexDigitVal[c] < 10

DecVal(c) == HexDigitVal[c]

\* str::starts_with
StartsWith(s, pre) == Len(s) >= Len(pre) /\ SubSeq(s, 1, Len(pre)) = pre

\* s.starts_with("0x") || s.starts_with("0X")
HasPrefix(s) == StartsWith(s, <<"0", "x">>) \/ StartsWith(s, <<"0", "X">>)

Some(x) == <<x>>

None == <<>>

\* a decoder that reads a character that is no hex digit as the digit 0
hex_decode_Lenient(hex) ==
    Ok([i \in 1..(Len(hex) \div 2) |->
        16 * (IF IsHexDigit(hex[2 * i - 1]) THEN HexVal(hex[2 * i - 1]) ELSE 0)
           + (IF IsHexDigit(hex[2 * i]) THEN HexVal(hex[2 * i]) ELSE 0)])

\* hex::decode of a text of even length: Err on a character that is no hex digit
hex_decode(hex) ==
    IF \E i \in 1..Len(hex) : ~IsHexDigit(hex[i]) THEN Err
    ELSE Ok([i \in 1..(Len(hex) \div 2) |-> 16 * HexVal(hex[2 * i - 1]) + HexVal(hex[2 * i])])

\* hex_bytes_padded without the retain(|c| c != '_') step
hex_bytes_padded_KeepsUnderscores(input, target_len) ==
    LET stripped == IF HasPrefix(input) THEN SubSeq(input, 3, Len(input)) ELSE input
        hex      == IF Len(stripped) % 2 = 1 THEN <<"0">> \o stripped ELSE stripped
        decoded  == hex_decode(hex)
    IN  IF decoded.st # "ok" THEN Err
        ELSE IF target_len = None THEN decoded
        ELSE LET t == target_len[1]
             IN  IF Len(decoded.val) > t THEN Err
                 ELSE Ok(PadLeft(decoded.val, t))

\* hex_bytes_padded that refuses a text of exactly target_len bytes
hex_bytes_padded_RefusesExact(input, target_len) ==
    LET stripped == IF HasPrefix(input) THEN SubSeq(input, 3, Len(input)) ELSE input
        retained == SelectSeq(stripped, LAMBDA c : c # "_")
        hex      == IF Len(retained) % 2 = 1 THEN <<"0">> \o retained ELSE retained
        decoded  == hex_decode(hex)
    IN  IF decoded.st # "ok" THEN Err
        ELSE IF target_len = None THEN decoded
        ELSE LET t == target_len[1]
                 bytes == decoded.val
             IN  IF Len(bytes) >= t THEN Err
                 ELSE Ok(Zeros(t - Len(bytes)) \o bytes)

\* hex_bytes_padded(input, target_len)
hex_bytes_padded(input, target_len) ==
    LET stripped == IF HasPrefix(input) THEN SubSeq(input, 3, Len(input)) ELSE input
        retained == SelectSeq(stripped, LAMBDA c : c # "_")
        hex      == IF Len(retained) % 2 = 1 THEN <<"0">> \o retained ELSE retained
        decoded  == hex_decode(hex)
    IN  IF decoded.st # "ok" THEN Err
        ELSE IF target_len = None THEN decoded
        ELSE LET t == target_len[1]
                 bytes == decoded.val
             IN  IF Len(bytes) > t THEN Err
                 ELSE IF Len(bytes) < t THEN Ok(Zeros(t - Len(bytes)) \o bytes)
                 ELSE Ok(bytes)

\* the value of the decimal digits ds[i..j], at most 6 of them
RECURSIVE SmallDec(_, _, _)
SmallDec(ds, i, j) ==
    IF j < i THEN 0 ELSE SmallDec(ds, i, j - 1) * 10 + DecVal(ds[j])

\* Horner's rule over a decimal text, 6 digits at a time: the chunks lo .. hi
\* of the digits ds, from acc.  The first chunk holds the digits that are
\* left over, so that the last chunk ends with the last digit.
RECURSIVE DecRange(_, _, _, _)
DecRange(acc, ds, lo, hi) ==
    IF lo > hi THEN acc
    ELSE IF lo = hi
    THEN LET first == Len(ds) - 6 * (DivCeil(Len(ds), 6) - 1)
             end   == first + 6 * (lo - 1)
             start == IF lo = 1 THEN 1 ELSE end - 5
         IN  MulAdd(acc, 10 ^ (end - start + 1), SmallDec(ds, start, end))
    ELSE LET mid  == (lo + hi) \div 2
             left == DecRange(acc, ds, lo, mid)
         IN  Force(left, DecRange(left, ds, mid + 1, hi))

DecToBig(ds) == DecRange(<<>>, ds, 1, DivCeil(Len(ds), 6))

\* BigUint::parse_bytes(s.as_bytes(), 10): one leading '+' is dropped (unless
\* another '+' follows), the text must not be empty nor start with '_', the
\* other '_' are skipped, and every other character must be a decimal digit
BigUint_parse_bytes(s) ==
    LET t == IF Len(s) >= 1 /\ s[1] = "+" /\ ~(Len(s) >= 2 /\ s[2] = "+")
             THEN Tail(s) ELSE s
        ds == SelectSeq(t, LAMBDA c : c # "_")
    IN  IF t = <<>> \/ t[1] = "_" THEN None
        ELSE IF \E i \in 1..Len(ds) : ~IsDecDigit(ds[i]) THEN None
        ELSE Some(DecToBig(ds))

\* from_any_str that tries hex first and decimal only when hex fails
BigUint_from_any_str_HexFirst(s, target) ==
    LET bytes == hex_bytes_padded(s, Some(target))
        dec == IF HasPrefix(s) THEN None ELSE BigUint_parse_bytes(s)
    IN  IF bytes.st = "ok" THEN Ok(from_bytes_be(bytes.val))
        ELSE IF dec # None THEN Ok(dec[1])
        ELSE Err

\* from_any_str of Uint256, Uint256Bits32 (target 32) and UInt384 (target 48)
BigUint_from_any_str(s, target) ==
    LET dec == IF HasPrefix(s) THEN None ELSE BigUint_parse_bytes(s)
    IN  IF dec # None THEN Ok(dec[1])
        ELSE LET bytes == hex_bytes_padded(s, Some(target))
             IN  IF bytes.st # "ok" THEN Err ELSE Ok(from_bytes_be(bytes.val))

Uint256_bytes_len == 32

Uint256Bits32_bytes_len == 32

UInt384_target_len == 48

Uint256_from_any_str(s) == BigUint_from_any_str(s, Uint256_bytes_len)

Uint256Bits32_from_any_str(s) == BigUint_from_any_str(s, Uint256Bits32_bytes_len)

UInt384_from_any_str(s) == BigUint_from_any_str(s, UInt384_target_len)

\* Felt252::from_dec_str of an unsigned text of at most 256 bits: the text
\* must not be empty, every character must be a decimal digit (no sign, no
\* '_'), and the value is reduced modulo P
Felt252_from_dec_str(s) ==
    IF s = <<>> THEN None
    ELSE IF \E i \in 1..Len(s) : ~IsDecDigit(s[i]) THEN None
    ELSE Some(Felt252_from_bytes_be_slice(DecToBig(s)))

\* Felt::from_any_str: decimal first for a text without prefix, else hex of
\* any length, reduced modulo P
Felt_from_any_str(s) ==
    LET dec == IF HasPrefix(s) THEN None ELSE Felt252_from_dec_str(s)
    IN  IF dec # None THEN Ok(dec[1])
        ELSE LET bytes == hex_bytes_padded(s, None)
             IN  IF bytes.st # "ok" THEN Err ELSE Ok(Felt252_from_bytes_be_slice(bytes.val))

\* from_any_str that reads a text without prefix as decimal first
KeccakBytes_from_any_str_DecimalFirst(s) ==
    LET dec == IF HasPrefix(s) THEN None ELSE BigUint_parse_bytes(s)
        hex_decoded == hex_bytes_padded(s, None)
    IN  IF dec # None THEN Ok(to_bytes_be(dec[1]))
        ELSE IF hex_decoded.st # "ok" THEN Err ELSE Ok(hex_decoded.val)

\* KeccakBytes::from_any_str: hex of any length, and nothing else
KeccakBytes_from_any_str(s) ==
    LET hex_decoded == hex_bytes_padded(s, None)
    IN  IF hex_decoded.st # "ok" THEN Err ELSE Ok(hex_decoded.val)

(***************************************************************************)
(* serde: a value becomes, or is read from, a JSON value (serde_json).     *)
(***************************************************************************)
JStr(t) == [k |-> "str", v |-> t]

\* a non-negative integer literal of at most 64 bits
JU64(n) == [k |-> "u64", v |-> n]

\* a negative integer literal, -n
JNeg(n) == [k |-> "i64", v |-> n]

JNull == [k |-> "null", v |-> <<>>]

JBool(b) == [k |-> "bool", v |-> b]

JSeq(items) == [k |-> "seq", v |-> items]

JMap(entries) == [k |-> "map", v |-> entries]

\* hex::encode_upper: the digits A..F in upper case
hex_encode_Upper(bytes) ==
    [i \in 1..(2 * Len(bytes)) |->
        LET b == bytes[(i + 1) \div 2]
        IN  UpperHex[(IF i % 2 = 1 THEN b \div 16 ELSE b % 16) + 1]]

\* hex::encode: two lower-case digits per byte
hex_encode(bytes) ==
    [i \in 1..(2 * Len(bytes)) |->
        LET b == bytes[(i + 1) \div 2]
        IN  LowerHex[(IF i % 2 = 1 THEN b \div 16 ELSE b % 16) + 1]]

\* format!("0x{}", hex)
WithPrefix(hex) == <<"0", "x">> \o hex

\* impl Serialize for Felt: the 32 bytes of the field element
Felt_serialize(f) ==
    LET bytes == Felt252_to_bytes_be(f)
    IN  Ok(JStr(WithPrefix(hex_encode(bytes))))

\* Serialize with the value's bytes taken least significant first
BigUint_serialize_padded_LittleEndian(v) ==
    LET bytes == to_bytes_be(v)
        le == [i \in 1..Len(bytes) |-> bytes[Len(bytes) + 1 - i]]
    IN  IF Len(bytes) > 32 THEN Panic
        ELSE Ok(JStr(WithPrefix(hex_encode(PadLeft(le, 32)))))

\* impl Serialize for Uint256 and for Uint256Bits32: `32 - bytes.len()`
\* aborts the call when the value has more than 32 bytes
BigUint_serialize_padded(v) ==
    LET bytes == to_bytes_be(v)
    IN  IF Len(bytes) > 32 THEN Panic
        ELSE Ok(JStr(WithPrefix(hex_encode(PadLeft(bytes, 32)))))

Uint256_serialize(v) == BigUint_serialize_padded(v)

Uint256Bits32_serialize(v) == BigUint_serialize_padded(v)

\* impl Serialize for BigUint (num_bigint): the sequence of the value's
\* 32-bit digits, the least significant first; zero is the empty sequence
BigUint_serialize(v) ==
    LET n == DivCeil(Len(v), 4)
        padded == PadLeft(v, 4 * n)
    IN  Ok(JSeq([i \in 1..n |-> JU64(from_bytes_be(SubSeq(padded, 4 * (n - i) + 1, 4 * (n - i) + 4)))]))

\* #[derive(Serialize)] on UInt384(pub BigUint): the wrapped value's own form
UInt384_serialize(v) == BigUint_serialize(v)

\* impl Serialize for KeccakBytes: the bytes as they are
KeccakBytes_serialize(bytes) == Ok(JStr(WithPrefix(hex_encode(bytes))))

\* the value of the first i bytes of bs, modulo 10
RECURSIVE RemPrefix(_, _)
RemPrefix(bs, i) == IF i = 0 THEN 0 ELSE (RemPrefix(bs, i - 1) * 256 + bs[i]) % 10

\* u64::to_string: the decimal digits of n, without a sign or leading zeros
RECURSIVE DecimalDigits(_)
DecimalDigits(n) ==
    IF n = <<>> THEN <<>>
    ELSE LET q == from_bytes_be([i \in 1..Len(n) |-> (RemPrefix(n, i - 1) * 256 + n[i]) \div 10])
         IN  DecimalDigits(q) \o <<DecDigits[RemPrefix(n, Len(n)) + 1]>>

u64_to_string(n) == IF n = <<>> THEN <<"0">> ELSE DecimalDigits(n)

\* T::from_any_str for the types T that deserialize through AnyStrVisitor
T_from_any_str(T, s) ==
    CASE T = "Felt"          -> Felt_from_any_str(s)
      [] T = "Uint256"       -> Uint256_from_any_str(s)
      [] T = "Uint256Bits32" -> Uint256Bits32_from_any_str(s)

\* serde_utils::deserialize_from_any with AnyStrVisitor: a string goes to
\* from_any_str (visit_str), a non-negative integer goes to from_any_str as
\* its decimal text (visit_u64), and every other shape is refused by the
\* Visitor's defaults
deserialize_from_any(T, j) ==
    IF j.k = "str" THEN T_from_any_str(T, j.v)
    ELSE IF j.k = "u64" THEN T_from_any_str(T, u64_to_string(j.v))
    ELSE Err

Felt_deserialize(j) == deserialize_from_any("Felt", j)

Uint256_deserialize(j) == deserialize_from_any("Uint256", j)

Uint256Bits32_deserialize(j) == deserialize_from_any("Uint256Bits32", j)

\* impl Deserialize for BigUint (num_bigint): a sequence of 32-bit digits,
\* the least significant first, and nothing else
BigUint_deserialize(j) ==
    IF j.k # "seq" THEN Err
    ELSE IF \E i \in 1..Len(j.v) : j.v[i].k # "u64" \/ Len(j.v[i].v) > 4 THEN Err
    ELSE LET n == Len(j.v)
         IN  Ok(from_bytes_be([b \in 1..(4 * n) |->
                    PadLeft(j.v[n - (b - 1) \div 4].v, 4)[((b - 1) % 4) + 1]]))

\* #[derive(Deserialize)] on UInt384(pub BigUint): the wrapped value's own form
UInt384_deserialize(j) == BigUint_deserialize(j)

\* impl Deserialize for KeccakBytes: String::deserialize, then from_any_str
KeccakBytes_deserialize(j) ==
    IF j.k # "str" THEN Err ELSE KeccakBytes_from_any_str(j.v)

(***************************************************************************)
(* Values callers hold.                                                    *)
(***************************************************************************)
\* 0x0102..w: every byte differs from every other
Stair(w) == [i \in 1..w |-> i]

Values256 ==
    { <<>>, <<1>>, Stair(32), Rep(255, 32), <<1>> \o Zeros(32) }

\* a value one past the width is what a caller can build from a BigUint directly
Values384 ==
    { <<>>, <<1>>, Stair(48), Rep(255, 48), <<1>> \o Zeros(48) }

\* field elements: 0, 2^128 and P - 1
ValuesFelt ==
    { <<>>, <<1>> \o Zeros(16), Sub(PRIME, <<1>>) }

ValuesBytes ==
    { <<>>, <<7>>, Stair(8), Stair(9) }

\* sequences over S of length at most n
RECURSIVE SeqsUpTo(_, _)
SeqsUpTo(S, n) ==
    IF n = 0 THEN { <<>> }
    ELSE LET shorter == SeqsUpTo(S, n - 1)
         IN  shorter \cup { <<c>> \o t : c \in S, t \in { u \in shorter : Len(u) = n - 1 } }

HeadChars == { "1", "_", "g", "+", "F" }

FillChars == { "0", "9", "f" }

\* run lengths around the widths of the types: 64 and 96 hex digits are 32
\* and 48 bytes, 10^77 < 2^256 < 10^78 and 10^115 < 2^384 < 10^116
FillLens == { 0, 1, 2, 3, 63, 64, 65, 66, 77, 78, 95, 96, 97, 115, 116 }

Prefixes == { <<>>, <<"0", "x">>, <<"0", "X">> }

\* the texts parsed: an optional prefix, a short free head, a run of one digit
Texts ==
    { p \o h \o Rep(c, n) :
        p \in Prefixes, h \in SeqsUpTo(HeadChars, MaxHead), c \in FillChars, n \in FillLens }

ShortChars == { "1", "2", "F", "_", "g" }

\* every text of at most MaxShort characters over ShortChars, behind each prefix
ShortTexts ==
    { p \o t : p \in Prefixes, t \in SeqsUpTo(ShortChars, MaxShort) }

AllTexts == Texts \cup ShortTexts

\* Felt252::from_dec_str is modelled for texts of at most 256 bits: a text of
\* decimal digits alone is given to Felt::from_any_str when it has at most 77
\* digits (10^77 < 2^256).  Felt has no byte width of its own: the texts of up
\* to MaxFeltText characters denote values below and above the prime (hex
\* texts of up to 39 bytes).
FeltTexts ==
    { s \in AllTexts :
        /\ Len(s) <= MaxFeltText
        /\ HasPrefix(s) \/ Len(s) <= 77 \/ \E i \in 1..Len(s) : ~IsDecDigit(s[i]) }

\* the integer literals read: 0, 123, 12345, 2^32 and u64::MAX
Numbers == { <<>>, <<123>>, <<48, 57>>, <<1, 0, 0, 0, 0>>, Rep(255, 8) }

\* the JSON values read: strings, integer literals and the other shapes
Jsons ==
    { JStr(t) : t \in ShortTexts } \cup { JU64(n) : n \in Numbers }
        \cup { JNeg(<<1>>), JNull, JBool("true"), JSeq(<<>>),
               JSeq(<<JU64(<<1>>), JU64(<<2>>), JU64(<<3>>)>>),
               JSeq(<<JStr(<<"0", "x", "1">>)>>), JSeq(<<JU64(<<1, 0, 0, 0, 0>>)>>),
               JMap(<<>>), JMap(<< <<JStr(<<"1">>), JStr(<<"1">>)>> >>) }

\* the values serialized: those written to memory, and 255
Serde256 == Values256 \cup { <<255>> }

Serde384 == Values384 \cup { <<255>> }

SerdeFelt == ValuesFelt \cup { <<255>> }

SerdeBytes == ValuesBytes \cup { <<0, 255>> }

TargetLens == { None, Some(Uint256_bytes_len), Some(UInt384_target_len) }

BaseAddrs == { <<0, o>> : o \in 0..MaxOffset }

(***************************************************************************)
(* The calls.                                                              *)
(***************************************************************************)
NoCall == [op |-> "none", ty |-> "none", addr |-> <<0, 0>>, arg |-> <<>>,
           st |-> "none", val |-> <<>>, done |-> 0, free |-> FALSE]

\* whether the nf cells from a on are all unset in m
CellsFree(m, a, nf) == \A i \in 0..(nf - 1) : AddrAdd(a, i) \notin DOMAIN m

NoParse == [ty |-> "none", text |-> <<>>, target |-> None, st |-> "none", val |-> <<>>]

\* a to_memory call that leaves the memory as it was when a write fails
ToMemory_RollsBack(ty, v, a, n, writes, nf) ==
    LET r == InsertAll(mem, n, writes, 1)
    IN  /\ steps < MaxSteps
        /\ mem' = IF r.done = Len(writes) THEN r.mem ELSE mem
        /\ last' = [op |-> "to_memory", ty |-> ty, addr |-> a, arg |-> v,
                    st |-> IF r.done = Len(writes) THEN "ok" ELSE "err",
                    val |-> IF r.done = Len(writes) THEN AddrAdd(a, nf) ELSE <<>>,
                    done |-> r.done, free |-> CellsFree(mem, a, nf)]
        /\ steps' = steps + 1

\* a to_memory call on a VM of n segments that makes `writes` and returns a + nf
ToMemory(ty, v, a, n, writes, nf) ==
    LET r == InsertAll(mem, n, writes, 1)
    IN  /\ steps < MaxSteps
        /\ mem' = r.mem
        /\ last' = [op |-> "to_memory", ty |-> ty, addr |-> a, arg |-> v,
                    st |-> IF r.done = Len(writes) THEN "ok" ELSE "err",
                    val |-> IF r.done = Len(writes) THEN AddrAdd(a, nf) ELSE <<>>,
                    done |-> r.done, free |-> CellsFree(mem, a, nf)]
        /\ steps' = steps + 1

\* a to_memory call that aborts before it writes
ToMemoryPanics(ty, v, a) ==
    /\ steps < MaxSteps
    /\ last' = [op |-> "to_memory", ty |-> ty, addr |-> a, arg |-> v,
                st |-> "panic", val |-> <<>>, done |-> 0, free |-> FALSE]
    /\ steps' = steps + 1
    /\ UNCHANGED mem

FromMemory(ty, a, r) ==
    /\ steps < MaxSteps
    /\ last' = [op |-> "from_memory", ty |-> ty, addr |-> a, arg |-> <<>>,
                st |-> r.st, val |-> r.val, done |-> 0, free |-> FALSE]
    /\ steps' = steps + 1
    /\ UNCHANGED <<mem, nsegs>>

Felt_ToMemory ==
    \E v \in ValuesFelt, a \in BaseAddrs :
        /\ ToMemory("Felt", v, a, nsegs, Felt_writes(v, a), Felt_n_fields)
        /\ UNCHANGED <<nsegs, parsed, wire>>

Felt_FromMemory ==
    \E a \in BaseAddrs :
        /\ FromMemory("Felt", a, Felt_from_memory(mem, a))
        /\ UNCHANGED <<parsed, wire>>

Uint256_ToMemory ==
    \E v \in Values256, a \in BaseAddrs :
        /\ ToMemory("Uint256", v, a, nsegs, Uint256_writes(v, a), Uint256_n_fields)
        /\ UNCHANGED <<nsegs, parsed, wire>>

Uint256_FromMemory ==
    \E a \in BaseAddrs :
        /\ FromMemory("Uint256", a, Uint256_from_memory(mem, a))
        /\ UNCHANGED <<parsed, wire>>

Uint256Bits32_ToMemory ==
    \E v \in Values256, a \in BaseAddrs :
        /\ ToMemory("Uint256Bits32", v, a, nsegs, Uint256Bits32_writes(v, a),
                    Uint256Bits32_n_fields)
        /\ UNCHANGED <<nsegs, parsed, wire>>

UInt384_ToMemory ==
    \E v \in Values384, a \in BaseAddrs :
        /\ IF UInt384_to_limbs_panics(v)
           THEN ToMemoryPanics("UInt384", v, a)
           ELSE ToMemory("UInt384", v, a, nsegs, UInt384_writes(v, a), UInt384_n_fields)
        /\ UNCHANGED <<nsegs, parsed, wire>>

UInt384_FromMemory ==
    \E a \in BaseAddrs :
        /\ FromMemory("UInt384", a, UInt384_from_memory(mem, a))
        /\ UNCHANGED <<parsed, wire>>

\* to_memory that gives the segment back when a write fails
KeccakBytes_ToMemory_UndoOnError ==
    \E v \in ValuesBytes, a \in BaseAddrs :
        /\ ToMemory("KeccakBytes", v, a, nsegs + 1, KeccakBytes_writes(v, a, nsegs),
                    KeccakBytes_n_fields)
        /\ nsegs' = IF last'.st = "ok" THEN nsegs + 1 ELSE nsegs
        /\ UNCHANGED <<parsed, wire>>

\* KeccakBytes::to_memory: add_memory_segment comes first, whatever follows
KeccakBytes_ToMemory ==
    \E v \in ValuesBytes, a \in BaseAddrs :
        /\ nsegs' = nsegs + 1
        /\ ToMemory("KeccakBytes", v, a, nsegs + 1, KeccakBytes_writes(v, a, nsegs),
                    KeccakBytes_n_fields)
        /\ UNCHANGED <<parsed, wire>>

Uint256Bits32_FromMemory ==
    \E a \in BaseAddrs :
        /\ FromMemory("Uint256Bits32", a, Uint256Bits32_from_memory(mem, a))
        /\ UNCHANGED <<parsed, wire>>

\* the record of a call of the string codec
ParseCall(ty, s, target, r) ==
    [ty |-> ty, text |-> s, target |-> target, st |-> r.st, val |-> r.val]

\* The codec is a pure function of the text: a behaviour makes one call of it.
HexBytesPadded ==
    /\ parsed = NoParse
    /\ \E s \in AllTexts, t \in TargetLens :
            /\ parsed' = ParseCall("hex_bytes_padded", s, t, hex_bytes_padded(s, t))
            /\ UNCHANGED <<mem, nsegs, last, steps, wire>>

Uint256_FromAnyStr ==
    /\ parsed = NoParse
    /\ \E s \in AllTexts :
            /\ parsed' = ParseCall("Uint256", s, Some(Uint256_bytes_len), Uint256_from_any_str(s))
            /\ UNCHANGED <<mem, nsegs, last, steps, wire>>

Uint256Bits32_FromAnyStr ==
    /\ parsed = NoParse
    /\ \E s \in AllTexts :
            /\ parsed' = ParseCall("Uint256Bits32", s, Some(Uint256Bits32_bytes_len),
                                   Uint256Bits32_from_any_str(s))
            /\ UNCHANGED <<mem, nsegs, last, steps, wire>>

UInt384_FromAnyStr ==
    /\ parsed = NoParse
    /\ \E s \in AllTexts :
            /\ parsed' = ParseCall("UInt384", s, Some(UInt384_target_len), UInt384_from_any_str(s))
            /\ UNCHANGED <<mem, nsegs, last, steps, wire>>

Felt_FromAnyStr ==
    /\ parsed = NoParse
    /\ \E s \in FeltTexts :
            /\ parsed' = ParseCall("Felt", s, None, Felt_from_any_str(s))
            /\ UNCHANGED <<mem, nsegs, last, steps, wire>>

KeccakBytes_FromAnyStr ==
    /\ parsed = NoParse
    /\ \E s \in AllTexts :
            /\ parsed' = ParseCall("KeccakBytes", s, None, KeccakBytes_from_any_str(s))
            /\ UNCHANGED <<mem, nsegs, last, steps, wire>>

NoWire == [op |-> "none", ty |-> "none", st |-> "none", val |-> <<>>, json |-> JNull]

\* the record of a serialize call on the value v with the result r
SerializeCall(ty, v, r) ==
    [op |-> "serialize", ty |-> ty, st |-> r.st, val |-> v,
     json |-> IF r.st = "ok" THEN r.val ELSE JNull]

\* the record of a deserialize call on the JSON value j with the result r
DeserializeCall(ty, j, r) ==
    [op |-> "deserialize", ty |-> ty, st |-> r.st, val |-> r.val, json |-> j]

Felt_Serialize ==
    /\ wire = NoWire
    /\ \E v \in SerdeFelt :
            /\ wire' = SerializeCall("Felt", v, Felt_serialize(v))
            /\ UNCHANGED <<mem, nsegs, last, steps, parsed>>

Uint256_Serialize ==
    /\ wire = NoWire
    /\ \E v \in Serde256 :
            /\ wire' = SerializeCall("Uint256", v, Uint256_serialize(v))
            /\ UNCHANGED <<mem, nsegs, last, steps, parsed>>

Uint256Bits32_Serialize ==
    /\ wire = NoWire
    /\ \E v \in Serde256 :
            /\ wire' = SerializeCall("Uint256Bits32", v, Uint256Bits32_serialize(v))
            /\ UNCHANGED <<mem, nsegs, last, steps, parsed>>

UInt384_Serialize ==
    /\ wire = NoWire
    /\ \E v \in Serde384 :
            /\ wire' = SerializeCall("UInt384", v, UInt384_serialize(v))
            /\ UNCHANGED <<mem, nsegs, last, steps, parsed>>

KeccakBytes_Serialize ==
    /\ wire = NoWire
    /\ \E v \in SerdeBytes :
            /\ wire' = SerializeCall("KeccakBytes", v, KeccakBytes_serialize(v))
            /\ UNCHANGED <<mem, nsegs, last, steps, parsed>>

Felt_Deserialize ==
    /\ wire = NoWire
    /\ \E j \in Jsons :
            /\ wire' = DeserializeCall("Felt", j, Felt_deserialize(j))
            /\ UNCHANGED <<mem, nsegs, last, steps, parsed>>

Uint256_Deserialize ==
    /\ wire = NoWire
    /\ \E j \in Jsons :
            /\ wire' = DeserializeCall("Uint256", j, Uint256_deserialize(j))
            /\ UNCHANGED <<mem, nsegs, last, steps, parsed>>

Uint256Bits32_Deserialize ==
    /\ wire = NoWire
    /\ \E j \in Jsons :
            /\ wire' = DeserializeCall("Uint256Bits32", j, Uint256Bits32_deserialize(j))
            /\ UNCHANGED <<mem, nsegs, last, steps, parsed>>

UInt384_Deserialize ==
    /\ wire = NoWire
    /\ \E j \in Jsons :
            /\ wire' = DeserializeCall("UInt384", j, UInt384_deserialize(j))
            /\ UNCHANGED <<mem, nsegs, last, steps, parsed>>

KeccakBytes_Deserialize ==
    /\ wire = NoWire
    /\ \E j \in Jsons :
            /\ wire' = DeserializeCall("KeccakBytes", j, KeccakBytes_deserialize(j))
            /\ UNCHANGED <<mem, nsegs, last, steps, parsed>>

Init ==
    /\ mem = <<>>
    /\ nsegs = 1
    /\ last = NoCall
    /\ steps = 0
    /\ parsed = NoParse
    /\ wire = NoWire

Next ==
    \/ Felt_ToMemory
    \/ Felt_FromMemory
    \/ Uint256_ToMemory
    \/ Uint256_FromMemory
    \/ Uint256Bits32_ToMemory
    \/ Uint256Bits32_FromMemory
    \/ UInt384_ToMemory
    \/ UInt384_FromMemory
    \/ KeccakBytes_ToMemory

Spec == Init /\ [][Next]_vars

\* the string codec alone
NextText ==
    \/ HexBytesPadded
    \/ Uint256_FromAnyStr
    \/ Uint256Bits32_FromAnyStr
    \/ UInt384_FromAnyStr
    \/ Felt_FromAnyStr
    \/ KeccakBytes_FromAnyStr

SpecText == Init /\ [][NextText]_vars

\* the values of type ty the layer returned: by the from_any_str call made,
\* or by the last from_memory call
Held(ty) ==
    (IF parsed.ty = ty /\ parsed.st = "ok" THEN { parsed.val } ELSE {})
        \cup (IF last.op = "from_memory" /\ last.ty = ty /\ last.st = "ok"
              THEN { last.val } ELSE {})

\* serialize of a value the layer returned
Uint256_SerializeHeld ==
    /\ wire = NoWire
    /\ \E v \in Held("Uint256") :
            /\ wire' = SerializeCall("Uint256", v, Uint256_serialize(v))
            /\ UNCHANGED <<mem, nsegs, last, steps, parsed>>

Uint256Bits32_SerializeHeld ==
    /\ wire = NoWire
    /\ \E v \in Held("Uint256Bits32") :
            /\ wire' = SerializeCall("Uint256Bits32", v, Uint256Bits32_serialize(v))
            /\ UNCHANGED <<mem, nsegs, last, steps, parsed>>

UInt384_SerializeHeld ==
    /\ wire = NoWire
    /\ \E v \in Held("UInt384") :
            /\ wire' = SerializeCall("UInt384", v, UInt384_serialize(v))
            /\ UNCHANGED <<mem, nsegs, last, steps, parsed>>

\* to_memory of a value the layer returned
Uint256_ToMemoryHeld ==
    \E v \in Held("Uint256"), a \in BaseAddrs :
        /\ ToMemory("Uint256", v, a, nsegs, Uint256_writes(v, a), Uint256_n_fields)
        /\ UNCHANGED <<nsegs, parsed, wire>>

Uint256Bits32_ToMemoryHeld ==
    \E v \in Held("Uint256Bits32"), a \in BaseAddrs :
        /\ ToMemory("Uint256Bits32", v, a, nsegs, Uint256Bits32_writes(v, a),
                    Uint256Bits32_n_fields)
        /\ UNCHANGED <<nsegs, parsed, wire>>

UInt384_ToMemoryHeld ==
    \E v \in Held("UInt384"), a \in BaseAddrs :
        /\ IF UInt384_to_limbs_panics(v)
           THEN ToMemoryPanics("UInt384", v, a)
           ELSE ToMemory("UInt384", v, a, nsegs, UInt384_writes(v, a), UInt384_n_fields)
        /\ UNCHANGED <<nsegs, parsed, wire>>

\* serialization and deserialization alone
NextSerde ==
    \/ Felt_Serialize
    \/ Uint256_Serialize
    \/ Uint256Bits32_Serialize
    \/ UInt384_Serialize
    \/ KeccakBytes_Serialize
    \/ Felt_Deserialize
    \/ Uint256_Deserialize
    \/ Uint256Bits32_Deserialize
    \/ UInt384_Deserialize
    \/ KeccakBytes_Deserialize

SpecSerde == Init /\ [][NextSerde]_vars

\* a value is parsed or read from memory, then serialized or written
NextChain ==
    \/ parsed = NoParse /\ wire = NoWire /\ Next
    \/ steps = 0 /\ Uint256_FromAnyStr
    \/ steps = 0 /\ Uint256Bits32_FromAnyStr
    \/ steps = 0 /\ UInt384_FromAnyStr
    \/ Uint256_SerializeHeld
    \/ Uint256Bits32_SerializeHeld
    \/ UInt384_SerializeHeld
    \/ Uint256_ToMemoryHeld
    \/ Uint256Bits32_ToMemoryHeld
    \/ UInt384_ToMemoryHeld

SpecChain == Init /\ [][NextChain]_vars

(***************************************************************************)
(* Properties.                                                             *)
(***************************************************************************)
\* the last call was a to_memory of type ty that returned Ok
WroteOk(ty) == last.op = "to_memory" /\ last.ty = ty /\ last.st = "ok"

\* the last call was a from_memory of type ty
Read(ty) == last.op = "from_memory" /\ last.ty = ty

\* the n cells from a on all hold field elements of at most w bytes
LimbsAt(a, n, w) ==
    \A i \in 0..(n - 1) : GetIntegerOk(mem, AddrAdd(a, i)) /\ Len(mem[AddrAdd(a, i)].v) <= w

\* the field element in cell a + i
CellV(a, i) == mem[AddrAdd(a, i)].v

\* the value of the bytes lo .. hi (from 1, inclusive) of the w-byte
\* big-endian rendering of v
Group(v, w, lo, hi) == from_bytes_be(SubSeq(PadLeft(v, w), lo, hi))

\* the value whose big-endian rendering is the n cells from a on, w bytes
\* each, the cell at a first
CellsMsbFirst(a, n, w) ==
    from_bytes_be([k \in 1..(n * w) |-> PadLeft(CellV(a, (k - 1) \div w), w)[((k - 1) % w) + 1]])

\* the value whose big-endian rendering is the n cells from a on, w bytes
\* each, the cell at a last
CellsLsbFirst(a, n, w) ==
    from_bytes_be([k \in 1..(n * w) |->
        PadLeft(CellV(a, n - 1 - (k - 1) \div w), w)[((k - 1) % w) + 1]])

\* C1: for every Uint256Bits32 value v < 2^256 and every address a whose 8
\* cells are free, after v.to_memory(vm, a) succeeds,
\* Uint256Bits32::from_memory(vm, a) returns a value equal to v.
C1_Bits32MemoryRoundTrip ==
    (WroteOk("Uint256Bits32") /\ last.free /\ Len(last.arg) <= 32)
        => Uint256Bits32_from_memory(mem, last.addr) = Ok(last.arg)

\* C2: when the 8 cells at a .. a+7 hold limbs c0 .. c7, each below 2^32,
\* Uint256Bits32::from_memory(vm, a) returns the sum of c_i * 2^(32 * (7 - i)):
\* the cell at a is the most significant chunk, the cell at a+7 the least.
C2_Bits32DecodeMsbFirst ==
    (Read("Uint256Bits32") /\ LimbsAt(last.addr, 8, 4))
        => /\ last.st = "ok"
           /\ last.val = CellsMsbFirst(last.addr, 8, 4)

\* C3: Uint256Bits32::to_memory writes, for every v < 2^256 and every i in
\* 0..7, the chunk (v >> 32 * (7 - i)) mod 2^32 to cell a + i; the value 1 is
\* written as [0,0,0,0,0,0,0,1], and as a Uint256 it is written as [1, 0].
C3_Bits32EncodeChunks ==
    /\ (WroteOk("Uint256Bits32") /\ Len(last.arg) <= 32)
        => \A i \in 0..7 :
              mem[AddrAdd(last.addr, i)] = IntCell(Group(last.arg, 32, 4 * i + 1, 4 * i + 4))
    /\ (WroteOk("Uint256Bits32") /\ last.arg = <<1>>)
        => /\ \A i \in 0..6 : mem[AddrAdd(last.addr, i)] = IntCell(<<>>)
           /\ mem[AddrAdd(last.addr, 7)] = IntCell(<<1>>)
    /\ (WroteOk("Uint256") /\ last.arg = <<1>>)
        => /\ mem[AddrAdd(last.addr, 0)] = IntCell(<<1>>)
           /\ mem[AddrAdd(last.addr, 1)] = IntCell(<<>>)

C3_Witness ==
    /\ WroteOk("Uint256Bits32")
    /\ last.arg = Stair(32)
    /\ mem[AddrAdd(last.addr, 0)] = IntCell(<<1, 2, 3, 4>>)
    /\ mem[AddrAdd(last.addr, 7)] = IntCell(<<29, 30, 31, 32>>)

\* C4: for every Uint256 value v < 2^256, to_memory writes v mod 2^128 to
\* cell a and v div 2^128 to cell a+1; and from_memory on cells holding
\* limbs l0, l1, each below 2^128, returns l1 * 2^128 + l0.
C4_Uint256Layout ==
    /\ (WroteOk("Uint256") /\ Len(last.arg) <= 32)
        => /\ mem[AddrAdd(last.addr, 0)] = IntCell(Group(last.arg, 32, 17, 32))
           /\ mem[AddrAdd(last.addr, 1)] = IntCell(Group(last.arg, 32, 1, 16))
    /\ (Read("Uint256") /\ LimbsAt(last.addr, 2, 16))
        => /\ last.st = "ok"
           /\ last.val = from_bytes_be(PadLeft(CellV(last.addr, 1), 16)
                                          \o PadLeft(CellV(last.addr, 0), 16))

C4_Witness ==
    /\ Read("Uint256")
    /\ last.st = "ok"
    /\ last.val = Stair(32)
    /\ CellV(last.addr, 0) = SubSeq(Stair(32), 17, 32)

\* C5: for Felt, Uint256 and UInt384, every value v within the type's range
\* (a reduced field element, v < 2^256, v < 2^384) and every address a with
\* free cells: after v.to_memory(vm, a) succeeds, from_memory(vm, a) of the
\* same type returns a value equal to v.
C5_InlineMemoryRoundTrip ==
    /\ (WroteOk("Felt") /\ last.free /\ Less(last.arg, PRIME))
        => Felt_from_memory(mem, last.addr) = Ok(last.arg)
    /\ (WroteOk("Uint256") /\ last.free /\ Len(last.arg) <= 32)
        => Uint256_from_memory(mem, last.addr) = Ok(last.arg)
    /\ (WroteOk("UInt384") /\ last.free /\ Len(last.arg) <= 48)
        => UInt384_from_memory(mem, last.addr) = Ok(last.arg)

C5_Witness ==
    /\ WroteOk("UInt384")
    /\ last.free
    /\ last.arg = Stair(48)
    /\ UInt384_from_memory(mem, last.addr).val = Stair(48)

\* byte q (from 0, the least significant) of the value d
ByteAt(d, q) == IF q >= 0 /\ q < Len(d) THEN d[Len(d) - q] ELSE 0

\* d3 << 288 | d2 << 192 | d1 << 96 | d0 of the four cells from a on, byte by byte
QuadOr(a) ==
    from_bytes_be([k \in 1..68 |->
        ByteOr(ByteOr(ByteAt(CellV(a, 0), 68 - k), ByteAt(CellV(a, 1), 68 - k - 12)),
               ByteOr(ByteAt(CellV(a, 2), 68 - k - 24), ByteAt(CellV(a, 3), 68 - k - 36)))])

\* C6: for every UInt384 value v < 2^384 and every k in 0..3, to_memory
\* writes (v >> 96 * k) mod 2^96 to cell a + k (bytes 36..48 of the 48-byte
\* big-endian rendering go to a, bytes 0..12 to a+3), and from_memory on
\* cells d0..d3 returns d3 << 288 | d2 << 192 | d1 << 96 | d0.
C6_UInt384Layout ==
    /\ (WroteOk("UInt384") /\ Len(last.arg) <= 48)
        => \A k \in 0..3 :
              mem[AddrAdd(last.addr, k)] =
                  IntCell(Group(last.arg, 48, 36 - 12 * k + 1, 48 - 12 * k))
    /\ (Read("UInt384") /\ LimbsAt(last.addr, 4, 32))
        => /\ last.st = "ok"
           /\ last.val = QuadOr(last.addr)
           /\ LimbsAt(last.addr, 4, 12) => last.val = CellsLsbFirst(last.addr, 4, 12)

C6_Witness ==
    /\ Read("UInt384")
    /\ last.st = "ok"
    /\ last.val = Stair(48)
    /\ CellV(last.addr, 0) = SubSeq(Stair(48), 37, 48)

\* the number of cells the claim gives each type
FieldCount(ty) ==
    CASE ty = "Felt" -> 1
      [] ty = "Uint256" -> 2
      [] ty = "Uint256Bits32" -> 8
      [] ty = "UInt384" -> 4
      [] ty = "KeccakBytes" -> 1

\* C7: every successful to_memory(vm, address) returns address + n_fields(),
\* n_fields being 1 for Felt, 2 for Uint256, 8 for Uint256Bits32, 4 for
\* UInt384 and 1 for KeccakBytes, and changes no cell of the address's segment
\* other than address .. address + n_fields() - 1; KeccakBytes also writes
\* into the segment it allocated in that call, and nowhere else.
C7_ToMemoryFrame ==
    [][(steps' = steps + 1 /\ last'.op = "to_memory" /\ last'.st = "ok")
        => LET a  == last'.addr
               nf == FieldCount(last'.ty)
           IN  /\ last'.val = <<a[1], a[2] + nf>>
               /\ \A c \in DOMAIN mem : c \in DOMAIN mem' /\ mem'[c] = mem[c]
               /\ \A c \in DOMAIN mem' \ DOMAIN mem :
                     \/ c[1] = a[1] /\ a[2] <= c[2] /\ c[2] < a[2] + nf
                     \/ last'.ty = "KeccakBytes" /\ c[1] = nsegs /\ nsegs' = nsegs + 1]_vars

C7_Witness ==
    /\ WroteOk("KeccakBytes")
    /\ steps >= 2
    /\ Len(last.arg) = 9
    /\ mem[last.addr] = PtrCell(<<nsegs - 1, 0>>)
    /\ <<nsegs - 1, 1>> \in DOMAIN mem
    /\ \E c \in DOMAIN mem : c[1] = 0 /\ c # last.addr

\* C10: every Uint256 returned by Uint256::from_memory has a value below
\* 2^256, for any two field elements stored in cells address and address+1.
C10_Uint256DecodeWidth ==
    (Read("Uint256") /\ last.st = "ok") => Len(last.val) <= 32

\* the hex digits of a text: the text without its 0x or 0X and without '_'
DigitsOf(text) ==
    SelectSeq(IF HasPrefix(text) THEN SubSeq(text, 3, Len(text)) ELSE text,
              LAMBDA c : c # "_")

AllHex(ds) == \A i \in 1..Len(ds) : IsHexDigit(ds[i])

\* the bytes the hex digits ds denote, counted from the right: the last two
\* digits are the last byte, and a first digit left alone is a byte of its own
BytesOf(ds) ==
    [k \in 1..DivCeil(Len(ds), 2) |->
        LET lo == Len(ds) - 2 * (DivCeil(Len(ds), 2) - k)
        IN  (IF lo > 1 THEN 16 * HexDigitVal[ds[lo - 1]] ELSE 0) + HexDigitVal[ds[lo]]]

\* C8: for a text whose digits are all hex digits,
\* hex_bytes_padded(text, Some(t)) returns an error exactly when the
\* number of bytes decoded from the hex digits (the prefix and the
\* underscores removed, an odd length left-padded) is greater than t, and
\* otherwise returns exactly t bytes, the decoded bytes left-padded with zero
\* bytes; so from_any_str of a 0x-prefixed text of more than 32 bytes fails
\* for Uint256 and Uint256Bits32, and of more than 48 bytes for UInt384.
C8_FixedWidth ==
    LET ds == DigitsOf(parsed.text)
        n  == DivCeil(Len(ds), 2)
    IN  /\ (parsed.ty = "hex_bytes_padded" /\ parsed.target # None /\ AllHex(ds))
            => LET t == parsed.target[1]
               IN  IF n > t THEN parsed.st = "err"
                   ELSE /\ parsed.st = "ok"
                        /\ Len(parsed.val) = t
                        /\ parsed.val = Zeros(t - n) \o BytesOf(ds)
        /\ (parsed.ty \in {"Uint256", "Uint256Bits32"} /\ HasPrefix(parsed.text)
                /\ AllHex(ds) /\ n > 32)
            => parsed.st = "err"
        /\ (parsed.ty = "UInt384" /\ HasPrefix(parsed.text) /\ AllHex(ds) /\ n > 48)
            => parsed.st = "err"

C8_Witness ==
    /\ parsed.ty = "hex_bytes_padded"
    /\ parsed.target = Some(32)
    /\ parsed.text = <<"0", "x">> \o Rep("f", 66)
    /\ parsed.st = "err"

\* C9: for every text s, if from_any_str(s) returns Ok(v) then v < 2^256 for
\* Uint256 and Uint256Bits32 and v < 2^384 for UInt384.
C9_ParseWidth ==
    /\ (parsed.ty \in {"Uint256", "Uint256Bits32"} /\ parsed.st = "ok")
        => Len(parsed.val) <= 32
    /\ (parsed.ty = "UInt384" /\ parsed.st = "ok") => Len(parsed.val) <= 48

\* the last call serialized the value of type ty it was given
Serialized(ty) == wire.op = "serialize" /\ wire.ty = ty /\ wire.st = "ok"

\* the last call was a deserialize of type ty
Deserialized(ty) == wire.op = "deserialize" /\ wire.ty = ty

IsCanonicalHex(j, v, width) ==
    /\ j.k = "str"
    /\ Len(j.v) = 2 + 2 * width
    /\ SubSeq(j.v, 1, 2) = <<"0", "x">>
    /\ \A i \in 3..Len(j.v) : \E d \in 1..16 : LowerHex[d] = j.v[i]
    /\ BytesOf(SubSeq(j.v, 3, Len(j.v))) = PadLeft(v, width)

\* C12: for every Felt, and every Uint256 and Uint256Bits32 value v < 2^256,
\* serialize succeeds and yields exactly the string "0x" followed by 64
\* lower-case hex digits, the big-endian value zero-padded on the left.
C12_Canonical32 ==
    (/\ wire.op = "serialize"
     /\ wire.ty \in { "Felt", "Uint256", "Uint256Bits32" }
     /\ Len(wire.val) <= 32)
        => /\ wire.st = "ok"
           /\ IsCanonicalHex(wire.json, wire.val, 32)

C12_Witness ==
    /\ Serialized("Uint256Bits32")
    /\ wire.val = <<255>>
    /\ wire.json = JStr(<<"0", "x">> \o Rep("0", 62) \o <<"f", "f">>)

\* C13: for every UInt384 value v < 2^384, serialize succeeds and yields
\* exactly the string "0x" followed by 96 lower-case hex digits, the 48
\* big-endian bytes of the value zero-padded on the left.
C13_Canonical48 ==
    (/\ wire.op = "serialize"
     /\ wire.ty = "UInt384"
     /\ Len(wire.val) <= 48)
        => /\ wire.st = "ok"
           /\ IsCanonicalHex(wire.json, wire.val, 48)

\* the result of the last from_any_str or hex_bytes_padded call
Result == [st |-> parsed.st, val |-> parsed.val]

IntegerKinds == { "Felt", "Uint256", "Uint256Bits32", "UInt384" }

\* the decimal texts of a kind: for Felt one or more decimal digits; for the
\* BigUint kinds an optional '+' sign, then a digit or an inner '_' at every
\* place, not starting with '_'
SignDropped(text) ==
    IF Len(text) >= 1 /\ text[1] = "+" /\ ~(Len(text) >= 2 /\ text[2] = "+")
    THEN Tail(text) ELSE text

IsDecimal(ty, text) ==
    LET plus == ty # "Felt" /\ SignDropped(text) # text
        from == IF plus THEN 2 ELSE 1
    IN  /\ Len(text) >= from
        /\ IsDecDigit(text[from])
        /\ \A i \in from..Len(text) :
              IsDecDigit(text[i]) \/ (ty # "Felt" /\ text[i] = "_")

\* the value of a decimal text of the kind
DecimalValue(ty, text) ==
    LET n == DecToBig(SelectSeq(SignDropped(text), LAMBDA c : c # "_"))
    IN  IF ty = "Felt" THEN Felt252_from_bytes_be_slice(n) ELSE n

\* what reading the text as hex gives for the kind: an error on a character
\* that is no hex digit or on more bytes than the kind's width, else the
\* big-endian value of the digits
HexReading(ty, text) ==
    LET ds == DigitsOf(text)
    IN  IF ~AllHex(ds) THEN Err
        ELSE IF ty = "Felt" THEN Ok(Felt252_from_bytes_be_slice(BytesOf(ds)))
        ELSE IF DivCeil(Len(ds), 2) > parsed.target[1] THEN Err
        ELSE Ok(from_bytes_be(BytesOf(ds)))

\* C14: for Felt, Uint256, Uint256Bits32 and UInt384, from_any_str of a text
\* without a 0x/0X prefix that is a valid decimal gives its decimal value
\* ("12" gives 12); a text with a prefix is always read as hex ("0x12" gives
\* 18) and never as decimal; a text without a prefix that is not a valid
\* decimal is read as hex ("FF" gives 255).
C14_DecimalOrHex ==
    parsed.ty \in IntegerKinds =>
        /\ IF ~HasPrefix(parsed.text) /\ IsDecimal(parsed.ty, parsed.text)
           THEN Result = Ok(DecimalValue(parsed.ty, parsed.text))
           ELSE Result = HexReading(parsed.ty, parsed.text)
        /\ parsed.text = <<"1", "2">> => Result = Ok(<<12>>)
        /\ parsed.text = <<"0", "x", "1", "2">> => Result = Ok(<<18>>)
        /\ parsed.text = <<"0", "X", "1", "2">> => Result = Ok(<<18>>)
        /\ parsed.text = <<"F", "F">> => Result = Ok(<<255>>)

C14_Witness ==
    /\ parsed.ty = "UInt384"
    /\ parsed.text = <<"1", "2">>
    /\ Result = Ok(<<12>>)

\* C15 as stated: KeccakBytes::from_any_str of a text without a 0x/0X prefix
\* that is an unsigned decimal integer gives the bytes of that decimal value
\* ("12" denotes the byte 12 = 0x0c).
C15_KeccakDecimalFirst ==
    (/\ parsed.ty = "KeccakBytes"
     /\ ~HasPrefix(parsed.text)
     /\ IsDecimal("Felt", parsed.text))
        => Result = Ok(to_bytes_be(DecimalValue("UInt384", parsed.text)))

\* C15, amended: KeccakBytes::from_any_str never attempts a decimal parse;
\* every text, with or without a 0x/0X prefix, is read as hex: an error on a
\* character that is no hex digit, else the bytes of the digits, a first
\* digit left alone being a byte of its own ("12" denotes the byte 0x12).
C15_KeccakHexOnly ==
    parsed.ty = "KeccakBytes" =>
        /\ Result = IF AllHex(DigitsOf(parsed.text))
                    THEN Ok(BytesOf(DigitsOf(parsed.text))) ELSE Err
        /\ parsed.text = <<"1", "2">> => Result = Ok(<<18>>)

C15_Witness ==
    /\ parsed.ty = "KeccakBytes"
    /\ parsed.text = <<"1", "2">>
    /\ Result = Ok(<<18>>)

\* the call recorded in `parsed`, made on another text
SameCall(text) ==
    CASE parsed.ty = "hex_bytes_padded" -> hex_bytes_padded(text, parsed.target)
      [] parsed.ty = "Uint256"          -> Uint256_from_any_str(text)
      [] parsed.ty = "Uint256Bits32"    -> Uint256Bits32_from_any_str(text)
      [] parsed.ty = "UInt384"          -> UInt384_from_any_str(text)
      [] parsed.ty = "Felt"             -> Felt_from_any_str(text)
      [] parsed.ty = "KeccakBytes"      -> KeccakBytes_from_any_str(text)

PrefixOf(text) == IF HasPrefix(text) THEN SubSeq(text, 1, 2) ELSE <<>>

AfterPrefix(text) == IF HasPrefix(text) THEN SubSeq(text, 3, Len(text)) ELSE text

\* the text with every '_' after the prefix removed
WithoutUnderscores(text) == PrefixOf(text) \o DigitsOf(text)

\* the text with one '0' put before its digits when their number is odd
ZeroPrepended(text) ==
    IF Len(DigitsOf(text)) % 2 = 1
    THEN PrefixOf(text) \o <<"0">> \o AfterPrefix(text) ELSE text

\* C16: for every text read as hex (any text given to hex_bytes_padded or
\* KeccakBytes::from_any_str, a 0x/0X-prefixed text given to from_any_str of
\* the integer kinds), the result is that of the same text with the '_'
\* after the prefix removed, and that of the same text with one '0' put
\* before an odd number of digits.
C16_UnderscoreOddLength ==
    (/\ parsed.ty # "none"
     /\ parsed.ty \in IntegerKinds => HasPrefix(parsed.text))
        => /\ (\E i \in 1..Len(parsed.text) : parsed.text[i] = "_")
                => Result = SameCall(WithoutUnderscores(parsed.text))
           /\ Len(DigitsOf(parsed.text)) % 2 = 1
                => Result = SameCall(ZeroPrepended(parsed.text))

C16_Witness ==
    /\ parsed.ty = "Uint256"
    /\ parsed.text = <<"0", "x", "1", "_", "2">>
    /\ Result = Uint256_from_any_str(<<"0", "x", "1", "2">>)
    /\ Result = Ok(<<18>>)

\* the result of the last serialize or deserialize call
WireResult == [st |-> wire.st, val |-> wire.val]

\* C17: for Felt, Uint256, Uint256Bits32 and UInt384, deserializing a
\* non-negative integer literal n of at most 64 bits succeeds and yields what
\* from_any_str yields on the decimal text of n, which is the value n.
C17_NumericInput ==
    (/\ wire.op = "deserialize"
     /\ wire.ty \in IntegerKinds
     /\ wire.json.k = "u64")
        => /\ WireResult = Ok(wire.json.v)
           /\ WireResult =
                CASE wire.ty = "Felt"          -> Felt_from_any_str(u64_to_string(wire.json.v))
                  [] wire.ty = "Uint256"       -> Uint256_from_any_str(u64_to_string(wire.json.v))
                  [] wire.ty = "Uint256Bits32" -> Uint256Bits32_from_any_str(u64_to_string(wire.json.v))
                  [] wire.ty = "UInt384"       -> UInt384_from_any_str(u64_to_string(wire.json.v))

\* C18: deserializing null, a boolean, an array, an object or a negative
\* integer as any of the five value kinds returns an error and no value.
C18_UnsupportedShapes ==
    (/\ wire.op = "deserialize"
     /\ wire.json.k \in { "null", "bool", "seq", "map", "i64" })
        => WireResult = Err

\* the same for the kinds other than UInt384: what remains true of the code
C18_ShapesButUInt384 ==
    (/\ wire.op = "deserialize"
     /\ wire.ty # "UInt384"
     /\ wire.json.k \in { "null", "bool", "seq", "map", "i64" })
        => WireResult = Err

\* the same as C17 for the kinds other than UInt384
C17_NumericButUInt384 ==
    (/\ wire.op = "deserialize"
     /\ wire.ty \in IntegerKinds \ { "UInt384" }
     /\ wire.json.k = "u64")
        => WireResult = Ok(wire.json.v)

\* C19: for each of the five kinds, if the text, its optional 0x/0X prefix
\* and its underscores removed, has a character that is no hex digit, and
\* the text is not a decimal text without prefix of a kind that reads
\* decimal, then from_any_str returns an error and no value.
C19_MalformedHex ==
    (/\ parsed.ty \in IntegerKinds \cup { "KeccakBytes" }
     /\ ~AllHex(DigitsOf(parsed.text))
     /\ ~(/\ parsed.ty \in IntegerKinds
          /\ ~HasPrefix(parsed.text)
          /\ IsDecimal(parsed.ty, parsed.text)))
        => Result = Err

C19_Witness ==
    /\ parsed.ty = "Uint256Bits32"
    /\ parsed.text = <<"0", "x", "g", "g">>
    /\ Result = Err

\* byte i (from 0) of the buffer, 0 past its end
BufByte(bytes, i) == IF i + 1 <= Len(bytes) THEN bytes[i + 1] ELSE 0

\* C20: after a successful KeccakBytes to_memory(vm, address) of a buffer of
\* L bytes, the segment allocated by the call holds exactly ceil(L/8) cells,
\* at offsets 0 .. ceil(L/8) - 1; cell j is a field element below 2^64 whose
\* byte of weight 256^k is byte 8j + k of the buffer (0 past the end), for k
\* in 0..7; the cell at address holds the pointer to offset 0 of that
\* segment; 9 bytes give 2 words, the second below 2^8, and an empty buffer
\* gives no word and still the pointer.
C20_SegmentPacking ==
    WroteOk("KeccakBytes") =>
        LET seg   == nsegs - 1
            bytes == last.arg
            n     == DivCeil(Len(bytes), 8)
        IN  /\ { c \in DOMAIN mem : c[1] = seg } = { <<seg, j>> : j \in 0..(n - 1) }
            /\ \A j \in 0..(n - 1) :
                  /\ GetIntegerOk(mem, <<seg, j>>)
                  /\ Len(mem[<<seg, j>>].v) <= 8
                  /\ \A k \in 0..7 :
                        PadLeft(mem[<<seg, j>>].v, 8)[8 - k] = BufByte(bytes, 8 * j + k)
            /\ mem[last.addr] = PtrCell(<<seg, 0>>)
            /\ Len(bytes) = 9 => n = 2 /\ Len(mem[<<seg, 1>>].v) <= 1
            /\ Len(bytes) = 0 => n = 0

C20_Witness ==
    /\ WroteOk("KeccakBytes")
    /\ last.arg = Stair(9)
    /\ mem[<<nsegs - 1, 0>>] = IntCell(<<8, 7, 6, 5, 4, 3, 2, 1>>)
    /\ mem[<<nsegs - 1, 1>>] = IntCell(<<9>>)
    /\ <<nsegs - 1, 2>> \notin DOMAIN mem
    /\ mem[last.addr] = PtrCell(<<nsegs - 1, 0>>)

\* the step is a call of to_memory of type ty
CallsToMemory(ty) == steps' = steps + 1 /\ last'.op = "to_memory" /\ last'.ty = ty

\* C21: every call of KeccakBytes::to_memory, ending in Ok or in an error,
\* advances the segment count by exactly one; the segment it allocates held
\* no cell before the call (it is distinct from every segment allocated
\* before), the words the call writes go to that segment, and the pointer a
\* successful call stores is the base of that segment; so no two pointer
\* cells ever point to the same segment, and other calls allocate nothing.
C21_SegmentPerCall ==
    /\ [][CallsToMemory("KeccakBytes")
            => /\ last'.st \in { "ok", "err" }
               /\ nsegs' = nsegs + 1
               /\ \A c \in DOMAIN mem : c[1] < nsegs
               /\ \A c \in DOMAIN mem' \ DOMAIN mem : c[1] = nsegs \/ c = last'.addr
               /\ \A j \in 0..(DivCeil(Len(last'.arg), 8) - 1) : <<nsegs, j>> \in DOMAIN mem'
               /\ last'.st = "ok" => mem'[last'.addr] = PtrCell(<<nsegs, 0>>)]_vars
    /\ [][~CallsToMemory("KeccakBytes") => nsegs' = nsegs]_vars
    /\ [](\A c, d \in DOMAIN mem :
            (mem[c].k = "ptr" /\ mem[d].k = "ptr" /\ c # d) => mem[c].v # mem[d].v)

\* a second call with the same buffer at the same address fails on the
\* pointer cell, after it allocated a segment of its own and wrote its words
C21_Witness ==
    /\ last.op = "to_memory" /\ last.ty = "KeccakBytes" /\ last.st = "err"
    /\ last.arg = Stair(9)
    /\ nsegs = 3
    /\ { <<1, 1>>, <<2, 1>> } \subseteq DOMAIN mem
    /\ mem[last.addr] = PtrCell(<<1, 0>>)
    /\ mem[<<1, 1>>] = IntCell(<<9>>)
    /\ mem[<<2, 1>>] = IntCell(<<9>>)

\* the limb to_memory of type ty puts in cell address + i (i from 0) for the value v
LimbFor(ty, v, i) ==
    CASE ty = "Uint256"       -> IntCell(Uint256_to_limbs(v)[i + 1])
      [] ty = "Uint256Bits32" -> IntCell(Uint256Bits32_to_limbs(v)[i])
      [] ty = "UInt384"       -> IntCell(Felt252_from_bytes_be_slice(UInt384_to_limbs(v)[i + 1]))

\* C22: when a to_memory call of Uint256, Uint256Bits32 or UInt384 returns
\* an error, there is a k below n_fields() such that the write of cell
\* address + k failed (the cell held another value), the cells address + 0
\* .. address + k - 1 hold the limbs of the value after the call, and the
\* call changed no other cell: in particular no cell address + j with j > k.
C22_FailStopNoRollback ==
    [][(/\ steps' = steps + 1
        /\ last'.op = "to_memory"
        /\ last'.ty \in { "Uint256", "Uint256Bits32", "UInt384" }
        /\ last'.st = "err")
        => LET a == last'.addr
               k == last'.done
           IN  /\ k < FieldCount(last'.ty)
               /\ last'.val = <<>>
               /\ AddrAdd(a, k) \in DOMAIN mem
               /\ mem[AddrAdd(a, k)] # LimbFor(last'.ty, last'.arg, k)
               /\ \A i \in 0..(k - 1) :
                     /\ AddrAdd(a, i) \in DOMAIN mem'
                     /\ mem'[AddrAdd(a, i)] = LimbFor(last'.ty, last'.arg, i)
               /\ \A c \in DOMAIN mem : c \in DOMAIN mem' /\ mem'[c] = mem[c]
               /\ \A c \in DOMAIN mem' \ DOMAIN mem :
                     c[1] = a[1] /\ a[2] <= c[2] /\ c[2] < a[2] + k]_vars

\* a Uint256 call that wrote its cell 0 and failed on an occupied cell 1
C22_Witness ==
    /\ last.op = "to_memory" /\ last.ty = "Uint256" /\ last.st = "err"
    /\ last.done = 1
    /\ last.arg = Stair(32)
    /\ last.addr \in DOMAIN mem
    /\ mem[last.addr] = LimbFor("Uint256", Stair(32), 0)
    /\ mem[AddrAdd(last.addr, 1)] # LimbFor("Uint256", Stair(32), 1)

\* C23: KeccakBytes::to_memory writes the pointer cell after its ceil(L/8)
\* words.  A call holds the VM exclusively, so the states others see are
\* those between calls: a call that set the pointer cell has all its words
\* in the segment pointed to; a call that fails has written every word that
\* precedes the failing write and, failing before or at the pointer write,
\* leaves the cell at the address as it was; and in every state the segment a
\* pointer cell points to is allocated and holds words at offsets 0 .. m - 1
\* for some m.
C23_PointerAfterData ==
    /\ [][CallsToMemory("KeccakBytes")
            => LET a == last'.addr
                   n == DivCeil(Len(last'.arg), 8)
               IN  /\ (a \notin DOMAIN mem /\ a \in DOMAIN mem')
                        => /\ mem'[a] = PtrCell(<<nsegs, 0>>)
                           /\ \A j \in 0..(n - 1) : GetIntegerOk(mem', <<nsegs, j>>)
                           /\ last'.st = "ok"
                   /\ last'.st = "err"
                        => /\ \A j \in 0..(last'.done - 1) : GetIntegerOk(mem', <<nsegs, j>>)
                           /\ last'.done = n
                           /\ a \in DOMAIN mem /\ mem'[a] = mem[a]]_vars
    /\ [](\A c \in DOMAIN mem :
            mem[c].k = "ptr"
                => /\ mem[c].v[1] < nsegs
                   /\ mem[c].v[2] = 0
                   /\ \A d \in DOMAIN mem :
                         d[1] = mem[c].v[1]
                            => /\ mem[d].k = "int"
                               /\ \A j \in 0..d[2] : <<d[1], j>> \in DOMAIN mem)

C23_Witness ==
    /\ WroteOk("KeccakBytes")
    /\ last.arg = Stair(9)
    /\ mem[last.addr] = PtrCell(<<nsegs - 1, 0>>)
    /\ { <<nsegs - 1, 0>>, <<nsegs - 1, 1>> } \subseteq DOMAIN mem
    /\ steps = 1

\* the memory m with every cell but the n cells from a on forgotten
OnlyCells(m, a, n) ==
    [c \in { AddrAdd(a, i) : i \in 0..(n - 1) } \cap DOMAIN m |-> m[c]]

\* from_memory of type ty
DecodeOf(ty, m, a) ==
    CASE ty = "Felt"          -> Felt_from_memory(m, a)
      [] ty = "Uint256"       -> Uint256_from_memory(m, a)
      [] ty = "Uint256Bits32" -> Uint256Bits32_from_memory(m, a)
      [] ty = "UInt384"       -> UInt384_from_memory(m, a)

\* C24: a from_memory call of Felt, Uint256, Uint256Bits32 or UInt384
\* changes no cell and allocates no segment; its result is the one it gives
\* on the memory that holds the cells address .. address + n_fields() - 1
\* alone; and it returns an error and no value exactly when one of those
\* cells is unset or holds no integer.
C24_DecodeReadOnly ==
    [][(steps' = steps + 1 /\ last'.op = "from_memory")
        => LET a  == last'.addr
               nf == FieldCount(last'.ty)
               r  == [st |-> last'.st, val |-> last'.val]
           IN  /\ last'.ty \in IntegerKinds
               /\ mem' = mem
               /\ nsegs' = nsegs
               /\ r = DecodeOf(last'.ty, OnlyCells(mem, a, nf), a)
               /\ r.st \in { "ok", "err" }
               /\ r = Err <=> \E i \in 0..(nf - 1) : ~GetIntegerOk(mem, AddrAdd(a, i))]_vars

\* a decode of four cells whose first holds a pointer
C24_Witness ==
    /\ Read("UInt384")
    /\ last.st = "err" /\ last.val = <<>>
    /\ last.addr \in DOMAIN mem
    /\ mem[last.addr].k = "ptr"

\* C25: serialize and to_memory of a value that from_any_str or from_memory
\* of Uint256, Uint256Bits32 or UInt384 returned complete with a result and
\* never abort: the padding length 32 - byte_length, or 48 - byte_length
\* for UInt384, is not negative for such a value.
C25_NoAbortOnOwnValues ==
    /\ [][(wire' # wire /\ wire'.op = "serialize" /\ wire'.val \in Held(wire'.ty))
            => /\ wire'.st = "ok"
               /\ wire'.ty \in { "Uint256", "Uint256Bits32" } => Len(to_bytes_be(wire'.val)) <= 32]_vars
    /\ [][(steps' = steps + 1 /\ last'.op = "to_memory" /\ last'.arg \in Held(last'.ty))
            => /\ last'.st \in { "ok", "err" }
               /\ last'.ty = "UInt384" => Len(to_bytes_be(last'.arg)) <= 48]_vars

\* C26: for every value a caller can hold, the cells a successful to_memory
\* wrote are below the limb bound of the type: 2^128 for the two Uint256
\* cells, 2^32 for the eight Uint256Bits32 cells, 2^96 for the four UInt384
\* cells and 2^64 for every KeccakBytes word.
C26_LimbWidth ==
    /\ WroteOk("Uint256") => LimbsAt(last.addr, 2, 16)
    /\ WroteOk("Uint256Bits32") => LimbsAt(last.addr, 8, 4)
    /\ WroteOk("UInt384") => LimbsAt(last.addr, 4, 12)
    /\ WroteOk("KeccakBytes")
        => \A c \in DOMAIN mem :
              c[1] = nsegs - 1 => mem[c].k = "int" /\ Len(mem[c].v) <= 8

\* the same without Uint256: what remains true of the code
C26_LimbWidthButUint256 ==
    /\ WroteOk("Uint256Bits32") => LimbsAt(last.addr, 8, 4)
    /\ WroteOk("UInt384") => LimbsAt(last.addr, 4, 12)
    /\ WroteOk("KeccakBytes")
        => \A c \in DOMAIN mem :
              c[1] = nsegs - 1 => mem[c].k = "int" /\ Len(mem[c].v) <= 8

====
